---- MODULE Spec2Model ----
(***************************************************************************)
(* Model of the light_nft_reproducer program (lib.rs): the single entry    *)
(* point create_compressed_nft, the helper hash_to_32_bytes, and the       *)
(* collaborators it calls (Poseidon hasher, Light SDK attach step, Light   *)
(* System Program CPI).                                                    *)
(***************************************************************************)
EXTENDS Integers, Sequences, FiniteSets, TLC

(* ------------------------------ bounds --------------------------------- *)
MaxNameLen == 40
MaxSymbolLen == 12
MaxUriLen == 40
MaxAccounts == 10
MaxLedger == 2

(* ------------------------- program constants --------------------------- *)
OWNER_WIDTH == 32
NAME_WIDTH == 32
SYMBOL_WIDTH == 10
HASH_WIDTH == 32
address_tree_absolute_index == 8
output_queue_absolute_index == 9
INTEGRATED_QUEUE == 0

LIGHT_CPI_SIGNER == "cpi_signer(FqnkaXZkLJfMZbrx36qBnuSZcJAaktguuhp32mqmAKAo)"
PROGRAM_ID == "FqnkaXZkLJfMZbrx36qBnuSZcJAaktguuhp32mqmAKAo"

(* ------------------------------ helpers -------------------------------- *)
Min(a, b) == IF a < b THEN a ELSE b

\* [0u8; w]
Zeros(w) == [i \in 1..w |-> 0]

\* a byte string of the given length with non-zero bytes
MkBytes(len, seed) == [i \in 1..len |-> ((seed + 7 * i) % 255) + 1]

RECURSIVE SumBytes(_)
SumBytes(s) == IF s = <<>> THEN 0 ELSE Head(s) + SumBytes(Tail(s))

(* ------------------------------ inputs --------------------------------- *)
Names == { MkBytes(n, 1) : n \in {0, 6, NAME_WIDTH, MaxNameLen} }
Symbols == { MkBytes(n, 2) : n \in {0, 3, SYMBOL_WIDTH, MaxSymbolLen} }
Uris == { MkBytes(n, 3) : n \in {0, 22, MaxUriLen} }
Users == { MkBytes(OWNER_WIDTH, 4), MkBytes(OWNER_WIDTH, 5) }
RootIndexes == 0..1
\* <<address_tree_account_index, output_queue_index>> as a client may pass
\* them: positions relative to the tree sub-slice, or absolute positions
IndexHints == { <<1, 2>>, <<address_tree_absolute_index, output_queue_absolute_index>> }
AccountCounts == 8..MaxAccounts

\* remaining_accounts in V2 order, as documented on CreateCompressedNFT
V2Role(i) ==
    CASE i = 0 -> "light_system_program"
      [] i = 1 -> "fee_payer"
      [] i = 2 -> "cpi_authority"
      [] i = 3 -> "registered_pda"
      [] i = 4 -> "compression_auth"
      [] i = 5 -> "compression_program"
      [] i = 6 -> "system_program"
      [] i = 7 -> "state_tree"
      [] i = address_tree_absolute_index -> "address_tree"
      [] i = output_queue_absolute_index -> "output_queue"
      [] OTHER -> "extra"

\* a list of n account references; Rust position p is TLA+ position p + 1
RemainingAccounts(n) == [i \in 1..n |-> V2Role(i - 1)]

\* The sets of inputs on which Poseidon::hash fails that are explored: none,
\* or every one. A request hashes one input, so every pair of an input and
\* an outcome of the hash occurs.
PoseidonFailSets == { {}, Uris }

\* errors the collaborators can report
LightSdkErrors == {"HasherError", "BorshError"}
SystemProgramErrors == {"ProofVerificationFailed", "InvalidAccountOrder"}

NoArgs ==
    [name |-> <<>>, symbol |-> <<>>, uri |-> <<>>,
     proof_a |-> <<>>, proof_b |-> <<>>, proof_c |-> <<>>,
     address_tree_root_index |-> 0, address_tree_account_index |-> 0,
     output_queue_index |-> 0, address_seed |-> <<>>]
NoCtx == [user |-> <<>>, remaining_accounts |-> <<>>]
NoCpiAccounts == [fee_payer |-> <<>>, accounts |-> <<>>, cpi_signer |-> ""]
NoProof == [present |-> FALSE, a |-> <<>>, b |-> <<>>, c |-> <<>>]
NoAddressParams ==
    [seed |-> <<>>, address_queue_account_index |-> 0,
     address_merkle_tree_account_index |-> 0,
     address_merkle_tree_root_index |-> 0,
     assigned_to_account |-> FALSE, assigned_account_index |-> 0]
NoRegistry ==
    [program |-> "", address |-> "None", output_tree_index |-> 0,
     owner |-> <<>>, name |-> <<>>, symbol |-> <<>>, uri_hash |-> <<>>]
NoCpi ==
    [cpi_signer |-> "", proof |-> NoProof, account_infos |-> <<>>,
     new_addresses |-> <<>>]

VARIABLES
    pc,                 \* position inside create_compressed_nft
    args,               \* the instruction arguments
    ctx,                \* ctx.accounts.user and ctx.remaining_accounts
    cpi_accounts,       \* CpiAccounts::new(...)
    proof,              \* ValidityProof(Some(CompressedProof))
    new_address_params, \* NewAddressParamsAssignedPacked
    owner_bytes, name_bytes, symbol_bytes, uri_hash,
    registry,           \* LightAccount<NFTRegistry>
    cpi,                \* InstructionDataInvokeCpiWithAccountInfo being built
    result,             \* what create_compressed_nft returned
    log,                \* msg! lines written on the error paths
    poseidon_fails,     \* inputs on which Poseidon::hash returns Err
    ledger,             \* number of committed state-tree mutations
    ledger_before,      \* ledger when the current request started
    attach_count,       \* calls of with_light_account in this request
    invoke_count,       \* calls of invoke in this request
    collab_error        \* error the collaborator reported in this request

vars == <<pc, args, ctx, cpi_accounts, proof, new_address_params, owner_bytes,
          name_bytes, symbol_bytes, uri_hash, registry, cpi, result, log,
          poseidon_fails, ledger, ledger_before, attach_count, invoke_count,
          collab_error>>

locals == <<cpi_accounts, proof, new_address_params, owner_bytes, name_bytes,
            symbol_bytes, uri_hash, registry, cpi>>
env == <<poseidon_fails, ledger, ledger_before>>
counters == <<attach_count, invoke_count, collab_error>>

(* ------------------------- pure functions ------------------------------ *)
\* dst.copy_from_slice(src), for slices of equal length
CopyFromSlice(dst, src) == [i \in 1..Len(dst) |-> src[i]]

\* PackField with the copy one byte short of the width
PackField_short(s, w) ==
    LET n == Min(Len(s), w - 1)
    IN  [i \in 1..w |-> IF i <= n THEN s[i] ELSE 0]

\* let mut buf = [0u8; w]; let n = s.len().min(w);
\* buf[..n].copy_from_slice(&s.as_bytes()[..n]);
PackField(s, w) ==
    LET n == Min(Len(s), w)
    IN  [i \in 1..w |-> IF i <= n THEN s[i] ELSE Zeros(w)[i]]

\* the digest Poseidon::hash returns on success: 32 bytes, a function of
\* every input byte and of the length
PoseidonDigest(data) ==
    [i \in 1..HASH_WIDTH |-> (31 * SumBytes(data) + 17 * Len(data) + 13 * i) % 256]

\* Poseidon::hash(data): Ok(hash) or Err(_), the same for the same bytes
PoseidonHash(data) ==
    IF data \in poseidon_fails
    THEN [ok |-> FALSE, hash |-> <<>>]
    ELSE [ok |-> TRUE, hash |-> PoseidonDigest(data)]

\* hash_to_32_bytes whose fallback leaves the output zeroed
hash_to_32_bytes_zeroed(data) ==
    LET res == PoseidonHash(data)
    IN  IF res.ok THEN res.hash ELSE [i \in 1..32 |-> 0]

hash_to_32_bytes(data) ==
    LET res == PoseidonHash(data)
    IN  IF res.ok
        THEN res.hash
        ELSE LET len == Min(Len(data), 32)
             IN  [i \in 1..32 |-> IF i <= len THEN data[i] ELSE 0]

\* NewAddressParams that trusts the caller's tree index
NewAddressParams_hint(address_seed, address_tree_root_index, address_tree_account_index) ==
    [seed |-> address_seed,
     address_queue_account_index |-> INTEGRATED_QUEUE,
     address_merkle_tree_account_index |-> address_tree_account_index,
     address_merkle_tree_root_index |-> address_tree_root_index,
     assigned_to_account |-> FALSE,
     assigned_account_index |-> 0]

\* NewAddressParams that marks the address as assigned to account 0
NewAddressParams_assigned(address_seed, address_tree_root_index, address_tree_account_index) ==
    [seed |-> address_seed,
     address_queue_account_index |-> INTEGRATED_QUEUE,
     address_merkle_tree_account_index |-> address_tree_absolute_index,
     address_merkle_tree_root_index |-> address_tree_root_index,
     assigned_to_account |-> TRUE,
     assigned_account_index |-> 0]

NewAddressParams(address_seed, address_tree_root_index, address_tree_account_index) ==
    [seed |-> address_seed,
     address_queue_account_index |-> INTEGRATED_QUEUE,
     address_merkle_tree_account_index |-> address_tree_absolute_index,
     address_merkle_tree_root_index |-> address_tree_root_index,
     assigned_to_account |-> FALSE,
     assigned_account_index |-> 0]

\* LightAccount::<NFTRegistry>::new_init(&crate::ID, None, index): the
\* record starts as NFTRegistry::default()
NewInit(output_queue_index) ==
    [program |-> PROGRAM_ID, address |-> "None",
     output_tree_index |-> output_queue_absolute_index,
     owner |-> Zeros(OWNER_WIDTH), name |-> Zeros(NAME_WIDTH),
     symbol |-> Zeros(SYMBOL_WIDTH), uri_hash |-> Zeros(HASH_WIDTH)]

\* AssignRegistry without the owner assignment
AssignRegistry_noOwner(r, o, n, s, h) ==
    [r EXCEPT !.name = n, !.symbol = s, !.uri_hash = h]

\* registry.owner = ...; registry.name = ...; registry.symbol = ...;
\* registry.uri_hash = ...
AssignRegistry(r, o, n, s, h) ==
    [r EXCEPT !.owner = o, !.name = n, !.symbol = s, !.uri_hash = h]

\* error mappings that pass the collaborator's error through, or drop it
AttachErrorCode_passthrough(e) == e
InvokeErrorCode_swallow(e) == "Ok"

\* .map_err(|e| { msg!(..., e); error!(ErrorCode::LightAccountError) })
AttachErrorCode(e) == "LightAccountError"
\* .map_err(|e| { msg!(..., e); error!(ErrorCode::CpiInvokeFailed) })
InvokeErrorCode(e) == "CpiInvokeFailed"

(* --------------------------- collaborators ----------------------------- *)
\* with_light_account: pure validation of the record, Ok or an SDK error
AttachOutcomes == {"Ok"} \cup LightSdkErrors

\* The Light System Program, atomic per call. It rejects a request whose
\* account list has no entry at a position the request refers to, and a
\* proof made against a root that is not the tree's current one.
SystemProgramOutcomes(request, accounts) ==
    LET addr == request.new_addresses[1]
        need == {addr.address_merkle_tree_account_index,
                 request.account_infos[1].output_tree_index}
    IN  IF \E p \in need : p + 1 > Len(accounts)
        THEN {"NotEnoughAccountKeys"}
        ELSE IF addr.address_merkle_tree_root_index # ledger
        THEN {"ProofVerificationFailed"}
        ELSE {"Ok"} \cup SystemProgramErrors

(* ------------------------------- Init ---------------------------------- *)
Init ==
    /\ pc = "idle"
    /\ args = NoArgs
    /\ ctx = NoCtx
    /\ cpi_accounts = NoCpiAccounts
    /\ proof = NoProof
    /\ new_address_params = NoAddressParams
    /\ owner_bytes = <<>>
    /\ name_bytes = <<>>
    /\ symbol_bytes = <<>>
    /\ uri_hash = <<>>
    /\ registry = NoRegistry
    /\ cpi = NoCpi
    /\ result = "none"
    /\ log = <<>>
    /\ poseidon_fails \in PoseidonFailSets
    /\ ledger = 0
    /\ ledger_before = 0
    /\ attach_count = 0
    /\ invoke_count = 0
    /\ collab_error = "none"

(* ------------------------------ actions -------------------------------- *)
\* a client submits the instruction; the state tree accepts no further
\* mutation once MaxLedger have been committed
Call ==
    /\ pc = "idle"
    /\ ledger < MaxLedger
    /\ \E n \in Names, s \in Symbols, u \in Uris, usr \in Users,
          r \in RootIndexes, h \in IndexHints, k \in AccountCounts :
          /\ args' = [name |-> n, symbol |-> s, uri |-> u,
                      proof_a |-> MkBytes(32, 6), proof_b |-> MkBytes(64, 7),
                      proof_c |-> MkBytes(32, 8),
                      address_tree_root_index |-> r,
                      address_tree_account_index |-> h[1],
                      output_queue_index |-> h[2],
                      address_seed |-> MkBytes(32, 9)]
          /\ ctx' = [user |-> usr, remaining_accounts |-> RemainingAccounts(k)]
    /\ pc' = "cpi_accounts"
    /\ ledger_before' = ledger
    /\ result' = "none"
    /\ log' = <<>>
    /\ attach_count' = 0
    /\ invoke_count' = 0
    /\ collab_error' = "none"
    /\ UNCHANGED <<locals, poseidon_fails, ledger>>

\* CpiAccounts::new(fee_payer, remaining_accounts, LIGHT_CPI_SIGNER)
NewCpiAccounts ==
    /\ pc = "cpi_accounts"
    /\ cpi_accounts' = [fee_payer |-> ctx.user,
                        accounts |-> ctx.remaining_accounts,
                        cpi_signer |-> LIGHT_CPI_SIGNER]
    /\ pc' = "proof"
    /\ UNCHANGED <<args, ctx, proof, new_address_params, owner_bytes,
                   name_bytes, symbol_bytes, uri_hash, registry, cpi, result,
                   log, env, counters>>

\* ValidityProof(Some(CompressedProof { a, b, c }))
BuildProof ==
    /\ pc = "proof"
    /\ proof' = [present |-> TRUE, a |-> args.proof_a, b |-> args.proof_b,
                 c |-> args.proof_c]
    /\ pc' = "address"
    /\ UNCHANGED <<args, ctx, cpi_accounts, new_address_params, owner_bytes,
                   name_bytes, symbol_bytes, uri_hash, registry, cpi, result,
                   log, env, counters>>

BuildNewAddressParams ==
    /\ pc = "address"
    /\ new_address_params' =
           NewAddressParams(args.address_seed, args.address_tree_root_index,
                            args.address_tree_account_index)
    /\ pc' = "pack"
    /\ UNCHANGED <<args, ctx, cpi_accounts, proof, owner_bytes, name_bytes,
                   symbol_bytes, uri_hash, registry, cpi, result, log, env,
                   counters>>

PackFields ==
    /\ pc = "pack"
    /\ owner_bytes' = CopyFromSlice(Zeros(OWNER_WIDTH), ctx.user)
    /\ name_bytes' = PackField(args.name, NAME_WIDTH)
    /\ symbol_bytes' = PackField(args.symbol, SYMBOL_WIDTH)
    /\ pc' = "hash"
    /\ UNCHANGED <<args, ctx, cpi_accounts, proof, new_address_params,
                   uri_hash, registry, cpi, result, log, env, counters>>

\* HashUri that ends the request when the hash fails
HashUri_fatal ==
    /\ pc = "hash"
    /\ IF PoseidonHash(args.uri).ok
       THEN /\ uri_hash' = hash_to_32_bytes(args.uri)
            /\ pc' = "registry"
            /\ UNCHANGED result
       ELSE /\ result' = "HashError"
            /\ pc' = "done"
            /\ UNCHANGED uri_hash
    /\ UNCHANGED <<args, ctx, cpi_accounts, proof, new_address_params,
                   owner_bytes, name_bytes, symbol_bytes, registry, cpi,
                   log, env, counters>>

HashUri ==
    /\ pc = "hash"
    /\ uri_hash' = hash_to_32_bytes(args.uri)
    /\ pc' = "registry"
    /\ UNCHANGED <<args, ctx, cpi_accounts, proof, new_address_params,
                   owner_bytes, name_bytes, symbol_bytes, registry, cpi,
                   result, log, env, counters>>

InitRegistry ==
    /\ pc = "registry"
    /\ registry' = AssignRegistry(NewInit(args.output_queue_index),
                                  owner_bytes, name_bytes, symbol_bytes,
                                  uri_hash)
    /\ pc' = "attach"
    /\ UNCHANGED <<args, ctx, cpi_accounts, proof, new_address_params,
                   owner_bytes, name_bytes, symbol_bytes, uri_hash, cpi,
                   result, log, env, counters>>

\* new_cpi(LIGHT_CPI_SIGNER, proof).with_light_account(registry).map_err(..)?
WithLightAccount ==
    /\ pc = "attach"
    /\ attach_count' = attach_count + 1
    /\ \E o \in AttachOutcomes :
          IF o = "Ok"
          THEN /\ cpi' = [cpi_signer |-> LIGHT_CPI_SIGNER, proof |-> proof,
                          account_infos |-> <<registry>>,
                          new_addresses |-> <<>>]
               /\ pc' = "new_addresses"
               /\ UNCHANGED <<result, log, collab_error>>
          ELSE /\ log' = Append(log, <<"Failed to add light account", o>>)
               /\ result' = AttachErrorCode(o)
               /\ collab_error' = o
               /\ pc' = "done"
               /\ UNCHANGED cpi
    /\ UNCHANGED <<args, ctx, cpi_accounts, proof, new_address_params,
                   owner_bytes, name_bytes, symbol_bytes, uri_hash, registry,
                   env, invoke_count>>

\* .with_new_addresses(&[new_address_params])
WithNewAddresses ==
    /\ pc = "new_addresses"
    /\ cpi' = [cpi EXCEPT !.new_addresses = <<new_address_params>>]
    /\ pc' = "invoke"
    /\ UNCHANGED <<args, ctx, cpi_accounts, proof, new_address_params,
                   owner_bytes, name_bytes, symbol_bytes, uri_hash, registry,
                   result, log, env, counters>>

\* Invoke that tries once more after a rejection
Invoke_retry ==
    /\ pc = "invoke"
    /\ invoke_count' = invoke_count + 1
    /\ \E o \in SystemProgramOutcomes(cpi, cpi_accounts.accounts) :
          IF o = "Ok"
          THEN /\ ledger' = ledger + 1
               /\ result' = "Ok"
               /\ pc' = "done"
               /\ UNCHANGED <<log, collab_error>>
          ELSE /\ log' = Append(log, <<"CPI invoke failed", o>>)
               /\ result' = InvokeErrorCode(o)
               /\ collab_error' = o
               /\ pc' = IF invoke_count = 0 THEN "invoke" ELSE "done"
               /\ UNCHANGED ledger
    /\ UNCHANGED <<args, ctx, locals, poseidon_fails, ledger_before,
                   attach_count>>

\* .invoke(cpi_accounts).map_err(..)?; Ok(())
Invoke ==
    /\ pc = "invoke"
    /\ invoke_count' = invoke_count + 1
    /\ \E o \in SystemProgramOutcomes(cpi, cpi_accounts.accounts) :
          IF o = "Ok"
          THEN /\ ledger' = ledger + 1
               /\ result' = "Ok"
               /\ UNCHANGED <<log, collab_error>>
          ELSE /\ log' = Append(log, <<"CPI invoke failed", o>>)
               /\ result' = InvokeErrorCode(o)
               /\ collab_error' = o
               /\ UNCHANGED ledger
    /\ pc' = "done"
    /\ UNCHANGED <<args, ctx, locals, poseidon_fails, ledger_before,
                   attach_count>>

\* the call has returned; every request-scoped value is dropped
Return ==
    /\ pc = "done"
    /\ pc' = "idle"
    /\ args' = NoArgs
    /\ ctx' = NoCtx
    /\ cpi_accounts' = NoCpiAccounts
    /\ proof' = NoProof
    /\ new_address_params' = NoAddressParams
    /\ owner_bytes' = <<>>
    /\ name_bytes' = <<>>
    /\ symbol_bytes' = <<>>
    /\ uri_hash' = <<>>
    /\ registry' = NoRegistry
    /\ cpi' = NoCpi
    /\ UNCHANGED <<result, log, env, counters>>

Next ==
    \/ Call
    \/ NewCpiAccounts
    \/ BuildProof
    \/ BuildNewAddressParams
    \/ PackFields
    \/ HashUri
    \/ InitRegistry
    \/ WithLightAccount
    \/ WithNewAddresses
    \/ Invoke
    \/ Return

Spec == Init /\ [][Next]_vars

\* the steps of one request run to completion once it has started
Step ==
    \/ NewCpiAccounts
    \/ BuildProof
    \/ BuildNewAddressParams
    \/ PackFields
    \/ HashUri
    \/ InitRegistry
    \/ WithLightAccount
    \/ WithNewAddresses
    \/ Invoke
    \/ Return

FairSpec == Spec /\ WF_vars(Step)

TypeOK ==
    /\ pc \in {"idle", "cpi_accounts", "proof", "address", "pack", "hash",
               "registry", "attach", "new_addresses", "invoke", "done"}
    /\ result \in {"none", "Ok", "LightAccountError", "CpiInvokeFailed"}
    /\ ledger \in 0..MaxLedger

(* ------------------------------ claims --------------------------------- *)
Packed == pc \in {"hash", "registry", "attach", "new_addresses", "invoke", "done"}
Hashed == pc \in {"registry", "attach", "new_addresses", "invoke", "done"}
AddressBuilt ==
    pc \in {"pack", "hash", "registry", "attach", "new_addresses", "invoke", "done"}
RegistryBuilt == pc \in {"attach", "new_addresses", "invoke", "done"}
BeforeAttach ==
    pc \in {"cpi_accounts", "proof", "address", "pack", "hash", "registry", "attach"}

\* f is s cut to w bytes, or s followed by zero bytes up to w
IsPacked(f, s, w) ==
    /\ Len(f) = w
    /\ \A i \in 1..w : f[i] = IF i <= Len(s) THEN s[i] ELSE 0

\* C1: once the fields are packed, name_bytes is exactly 32 bytes and
\* symbol_bytes exactly 10; each starts with the first min(len, width) bytes
\* of its input and every remaining byte is zero (padding, verbatim copy and
\* silent truncation alike).
C1_PackedFields ==
    Packed => /\ IsPacked(name_bytes, args.name, 32)
              /\ IsPacked(symbol_bytes, args.symbol, 10)

\* a 40-byte name was cut to its first 32 bytes, a 3-byte symbol padded
C1_Witness ==
    /\ pc = "hash"
    /\ Len(args.name) = MaxNameLen
    /\ name_bytes = SubSeq(args.name, 1, 32)
    /\ Len(args.symbol) = 3
    /\ symbol_bytes[4] = 0

\* C2: the new-address descriptor always names tree position 8 and the
\* payload always names queue position 9; the assembled CPI request is
\* determined by the inputs other than address_tree_account_index and
\* output_queue_index.
C2_HintsIgnored ==
    /\ AddressBuilt => new_address_params.address_merkle_tree_account_index = 8
    /\ RegistryBuilt => registry.output_tree_index = 9
    /\ (pc = "invoke" \/ (pc = "done" /\ invoke_count = 1)) =>
          cpi = [cpi_signer |-> LIGHT_CPI_SIGNER,
                 proof |-> [present |-> TRUE, a |-> args.proof_a,
                            b |-> args.proof_b, c |-> args.proof_c],
                 account_infos |->
                     << [program |-> PROGRAM_ID, address |-> "None",
                         output_tree_index |-> 9, owner |-> ctx.user,
                         name |-> name_bytes, symbol |-> symbol_bytes,
                         uri_hash |-> uri_hash] >>,
                 new_addresses |->
                     << [seed |-> args.address_seed,
                         address_queue_account_index |-> 0,
                         address_merkle_tree_account_index |-> 8,
                         address_merkle_tree_root_index |->
                             args.address_tree_root_index,
                         assigned_to_account |-> FALSE,
                         assigned_account_index |-> 0] >>]

\* a request with the relative hints 1 and 2 is about to be invoked
C2_Witness ==
    /\ pc = "invoke"
    /\ args.address_tree_account_index = 1
    /\ args.output_queue_index = 2
    /\ cpi.new_addresses[1].address_merkle_tree_account_index = 8

\* C3 (as claimed): a request whose account list has fewer than 10 entries
\* never reaches the invoke step.
C3_ShortListNeverInvoked ==
    (pc # "idle" /\ Len(ctx.remaining_accounts) < 10) =>
        (pc # "invoke" /\ invoke_count = 0)

\* C4: during a request the ledger is what it was at the start; when the
\* request has returned, the ledger has grown by exactly one if and only if
\* the invocation succeeded and the result is Ok, and otherwise the result
\* is an error and the ledger is unchanged.
C4_LedgerOnceIffOk ==
    /\ (pc # "idle" /\ pc # "done") => ledger = ledger_before
    /\ pc = "done" =>
          /\ result = "Ok" <=> ledger = ledger_before + 1
          /\ result = "Ok" <=> (invoke_count = 1 /\ collab_error = "none")
          /\ result # "Ok" =>
                /\ ledger = ledger_before
                /\ result \in {"LightAccountError", "CpiInvokeFailed"}

\* a second mutation was committed by a request that returned Ok
C4_Witness ==
    /\ pc = "done"
    /\ result = "Ok"
    /\ ledger_before = 1
    /\ ledger = 2

C6_NeverAssigned ==
    /\ AddressBuilt => new_address_params.assigned_to_account = FALSE
    /\ \A i \in 1..Len(cpi.new_addresses) :
          cpi.new_addresses[i].assigned_to_account = FALSE

\* the descriptor has been attached to a request
C6_Witness ==
    /\ pc = "invoke"
    /\ Len(cpi.new_addresses) = 1
    /\ new_address_params.seed = args.address_seed

\* C7: from the attach step on, the record's owner is the signer's 32-byte
\* key and owner, name, symbol and uri_hash hold their packed values at
\* widths 32, 32, 10 and 32; the record handed to with_light_account is that
\* record.
C7_RecordComplete ==
    /\ RegistryBuilt =>
          /\ registry.owner = ctx.user
          /\ Len(registry.owner) = 32
          /\ registry.name = name_bytes /\ Len(registry.name) = 32
          /\ registry.symbol = symbol_bytes /\ Len(registry.symbol) = 10
          /\ registry.uri_hash = uri_hash /\ Len(registry.uri_hash) = 32
    /\ \A i \in 1..Len(cpi.account_infos) : cpi.account_infos[i] = registry

\* a record has been attached
C7_Witness ==
    /\ pc = "new_addresses"
    /\ cpi.account_infos[1].owner = ctx.user
    /\ ctx.user \in Users

\* C8: after the hash step uri_hash is 32 bytes fixed by the URI bytes: the
\* Poseidon digest when the hash succeeds, and the first min(len, 32) bytes
\* of the URI followed by zeros when it fails; the step reports no error.
C8_HashOrFallback ==
    Hashed =>
        /\ Len(uri_hash) = 32
        /\ args.uri \notin poseidon_fails => uri_hash = PoseidonDigest(args.uri)
        /\ args.uri \in poseidon_fails =>
              \A i \in 1..32 :
                  uri_hash[i] = IF i <= Len(args.uri) THEN args.uri[i] ELSE 0
        /\ pc = "registry" => result = "none"

\* the hash failed on a 22-byte URI and the fallback padded it
C8_Witness ==
    /\ pc = "registry"
    /\ args.uri \in poseidon_fails
    /\ Len(args.uri) = 22
    /\ uri_hash[22] # 0
    /\ uri_hash[23] = 0

\* C9: the payload is attached, then the descriptor, then the request is
\* invoked; with_light_account and invoke each run at most once; an attach
\* failure returns LightAccountError without an invocation; after a
\* successful attach the invocation runs exactly once, and its rejection
\* returns CpiInvokeFailed.
C9_StepOrder ==
    /\ attach_count <= 1
    /\ invoke_count <= 1
    /\ invoke_count <= attach_count
    /\ pc = "new_addresses" =>
          /\ attach_count = 1 /\ invoke_count = 0
          /\ Len(cpi.account_infos) = 1 /\ cpi.new_addresses = <<>>
    /\ pc = "invoke" =>
          /\ attach_count = 1 /\ invoke_count = 0
          /\ Len(cpi.account_infos) = 1 /\ Len(cpi.new_addresses) = 1
    /\ pc = "done" =>
          /\ attach_count = 1
          /\ collab_error \in LightSdkErrors =>
                result = "LightAccountError" /\ invoke_count = 0
          /\ collab_error \notin LightSdkErrors => invoke_count = 1
          /\ (invoke_count = 1 /\ collab_error # "none") =>
                result = "CpiInvokeFailed"
          /\ result = "LightAccountError" => invoke_count = 0

\* the privileged component rejected the request after a successful attach
C9_Witness ==
    /\ pc = "done"
    /\ result = "CpiInvokeFailed"
    /\ attach_count = 1
    /\ invoke_count = 1

C10_Outcome ==
    /\ BeforeAttach => result = "none"
    /\ pc = "done" =>
          /\ result \in {"Ok", "LightAccountError", "CpiInvokeFailed"}
          /\ attach_count = 1

\* C10: no request has a result before the attach step, whatever name,
\* symbol and uri are; a returned request has exactly one of the results Ok,
\* LightAccountError, CpiInvokeFailed; and every request that starts
\* returns.
C10_Terminates ==
    /\ []C10_Outcome
    /\ (pc = "cpi_accounts") ~> (pc = "done")

\* a request with an over-long name, an empty symbol and a URI the hash
\* fails on returned Ok
C10_Witness ==
    /\ pc = "done"
    /\ result = "Ok"
    /\ Len(args.name) > 32
    /\ args.symbol = <<>>
    /\ args.uri \in poseidon_fails
====
